---- MODULE Spec2Model ----
(***************************************************************************)
(* md2pptx: Markdown block tokens -> slide model -> slide layout.          *)
(*                                                                         *)
(* Three programs of src/src/index.tsx are modelled:                       *)
(*   parseTextRuns  (SpecRuns)   the recursive inline run resolver         *)
(*   parseSlides    (Spec)       the token loop that builds SlideData      *)
(*   buildPptx / renderElements (SpecLayout)  the per-slide layout         *)
(*                                                                         *)
(* Inline text and raw text are TLA+ strings.  A paragraph's text, which   *)
(* the code matches against regular expressions, is a sequence of          *)
(* one-character strings.  The lengths the source writes are held in       *)
(* 1/1000 inch, so that 5.625 is 5625; the layout computes with them in    *)
(* IEEE 754 doubles, as the code does, rounding included.                  *)
(***************************************************************************)
EXTENDS Integers, Sequences, FiniteSets, TLC

VARIABLES
    tokensIn,   \* parseTextRuns: the inline token list passed in
    runsOut,    \* parseTextRuns: <<>> before the call, <<runs>> after it
    consumed,   \* parseSlides: the block tokens the loop has processed
    slides,     \* parseSlides: the slides array
    current,    \* parseSlides: <<>> for null, <<slide>> for a current slide
    diag,       \* parseSlides: the console.error calls made, in order
    ppc,        \* parseSlides: "loop" or "returned"
    slide,      \* buildPptx: the SlideData being laid out
    lpc,        \* buildPptx: "start", "col1", "col2", "single", "done"
    elems,      \* renderElements: its elems argument
    k,          \* renderElements: index of the next element of the loop
    yOffset,    \* renderElements: the vertical cursor
    colX,       \* renderElements: its x argument
    colW,       \* renderElements: its w argument
    calls       \* the slide.addText/addImage/addTable/addShape calls made

vars == <<tokensIn, runsOut, consumed, slides, current, diag, ppc,
          slide, lpc, elems, k, yOffset, colX, colW, calls>>

runsVars == <<tokensIn, runsOut>>
parseVars == <<consumed, slides, current, diag, ppc>>
layoutVars == <<slide, lpc, elems, k, yOffset, colX, colW, calls>>

(***************************************************************************)
(* Bounds                                                                  *)
(***************************************************************************)
\* inline token trees handed to parseTextRuns have at most this many nodes
MaxNodes == 3
\* parseSlides processes at most this many block tokens
MaxTokens == 4
\* a slide handed to the layout has at most this many elements
MaxElems == 4

\* the values of the variables of a program that is not running
IdleParse ==
    /\ consumed = << >> /\ slides = << >> /\ current = << >>
    /\ diag = << >> /\ ppc = "idle"

IdleLayout ==
    /\ slide = << >> /\ lpc = "idle" /\ elems = << >> /\ k = 0
    /\ yOffset = 0 /\ colX = 0 /\ colW = 0 /\ calls = << >>

IdleRuns == tokensIn = << >> /\ runsOut = << >>

(***************************************************************************)
(* Inline tokens (marked.Token, inline kinds)                              *)
(*   [type |-> "strong", tokens |-> <<...>>]                               *)
(*   [type |-> "em", tokens |-> <<...>>]                                   *)
(*   [type |-> "codespan", text |-> s]                                     *)
(*   [type |-> "link", href |-> s, title |-> <<>> or <<s>>, tokens |-> ..] *)
(*   [type |-> "text", text |-> s]            no tokens property           *)
(*   [type |-> "text", text |-> s, tokens |-> <<...>>]                     *)
(*   [type |-> other, raw |-> s]              any other inline kind        *)
(* title <<>> is marked's null title.                                      *)
(***************************************************************************)
LeafTokens ==
    { [type |-> "text", text |-> "a"],
      [type |-> "codespan", text |-> "c"],
      [type |-> "del", raw |-> "~d~"],
      [type |-> "html", raw |-> ""] }

Containers(kids) ==
    { [type |-> "strong", tokens |-> kids],
      [type |-> "em", tokens |-> kids],
      [type |-> "link", href |-> "u", title |-> << >>, tokens |-> kids],
      [type |-> "link", href |-> "v", title |-> <<"t">>, tokens |-> kids],
      [type |-> "text", text |-> "x", tokens |-> kids] }

RECURSIVE TreesOfSize(_), ForestsOfSize(_)
\* the inline tokens with exactly n nodes
TreesOfSize(n) ==
    IF n = 1
    THEN LeafTokens \cup Containers(<< >>)
    ELSE UNION { Containers(f) : f \in ForestsOfSize(n - 1) }

\* the inline token lists with exactly n nodes in all
ForestsOfSize(n) ==
    IF n = 0
    THEN { << >> }
    ELSE UNION { { <<t>> \o f : t \in TreesOfSize(j), f \in ForestsOfSize(n - j) }
                 : j \in 1..n }

(***************************************************************************)
(* parseTextRuns, src/src/index.tsx 63-100                                 *)
(***************************************************************************)
\* JavaScript truthiness of a string
Truthy(s) == s # ""

\* { ...o, key: value }
Spread(o, extra) == extra @@ o

\* token.title || token.href
Tooltip(token) ==
    IF token.title # << >> /\ Truthy(token.title[1])
    THEN token.title[1]
    ELSE token.href

RECURSIVE parseTextRuns(_, _)
RECURSIVE parseToken(_, _)
\* a link starts from empty options instead of the inherited ones
parseTokenLinkResets(token, parentOptions) ==
    LET currentOptions == parentOptions IN
    CASE token.type = "strong" ->
            parseTextRuns(token.tokens, Spread(currentOptions, [bold |-> TRUE]))
      [] token.type = "em" ->
            parseTextRuns(token.tokens, Spread(currentOptions, [italic |-> TRUE]))
      [] token.type = "codespan" ->
            << [text |-> " " \o token.text \o " ",
                options |-> Spread(currentOptions, [fontFace |-> "Courier New"])] >>
      [] token.type = "link" ->
            parseTextRuns(token.tokens,
                [hyperlink |-> [url |-> token.href, tooltip |-> Tooltip(token)]])
      [] token.type = "text" ->
            IF "tokens" \in DOMAIN token
            THEN parseTextRuns(token.tokens, currentOptions)
            ELSE << [text |-> token.text, options |-> currentOptions] >>
      [] OTHER ->
            IF Truthy(token.raw)
            THEN << [text |-> token.raw, options |-> currentOptions] >>
            ELSE << >>

\* the fallback emits its raw text without the inherited options
parseTokenRawUnstyled(token, parentOptions) ==
    LET currentOptions == parentOptions IN
    CASE token.type = "strong" ->
            parseTextRuns(token.tokens, Spread(currentOptions, [bold |-> TRUE]))
      [] token.type = "em" ->
            parseTextRuns(token.tokens, Spread(currentOptions, [italic |-> TRUE]))
      [] token.type = "codespan" ->
            << [text |-> " " \o token.text \o " ",
                options |-> Spread(currentOptions, [fontFace |-> "Courier New"])] >>
      [] token.type = "link" ->
            parseTextRuns(token.tokens,
                Spread(currentOptions,
                       [hyperlink |-> [url |-> token.href, tooltip |-> Tooltip(token)]]))
      [] token.type = "text" ->
            IF "tokens" \in DOMAIN token
            THEN parseTextRuns(token.tokens, currentOptions)
            ELSE << [text |-> token.text, options |-> currentOptions] >>
      [] OTHER ->
            IF Truthy(token.raw)
            THEN << [text |-> token.raw, options |-> << >>] >>
            ELSE << >>

\* the runs one token of the for loop pushes
parseToken(token, parentOptions) ==
    LET currentOptions == parentOptions IN
    CASE token.type = "strong" ->
            parseTextRuns(token.tokens, Spread(currentOptions, [bold |-> TRUE]))
      [] token.type = "em" ->
            parseTextRuns(token.tokens, Spread(currentOptions, [italic |-> TRUE]))
      [] token.type = "codespan" ->
            << [text |-> " " \o token.text \o " ",
                options |-> Spread(currentOptions, [fontFace |-> "Courier New"])] >>
      [] token.type = "link" ->
            parseTextRuns(token.tokens,
                Spread(currentOptions,
                       [hyperlink |-> [url |-> token.href, tooltip |-> Tooltip(token)]]))
      [] token.type = "text" ->
            IF "tokens" \in DOMAIN token
            THEN parseTextRuns(token.tokens, currentOptions)
            ELSE << [text |-> token.text, options |-> currentOptions] >>
      [] OTHER ->
            IF Truthy(token.raw)
            THEN << [text |-> token.raw, options |-> currentOptions] >>
            ELSE << >>

parseTextRuns(tokens, parentOptions) ==
    IF tokens = << >>
    THEN << >>
    ELSE parseToken(Head(tokens), parentOptions)
            \o parseTextRuns(Tail(tokens), parentOptions)

(***************************************************************************)
(* Strings as character sequences, and the String.prototype / RegExp       *)
(* operations parseSlides applies to a paragraph's text                    *)
(***************************************************************************)
\* \s of a JavaScript regular expression (the characters the model uses)
IsSpace(c) == c \in {" ", "\t", "\n"}

\* the characters "." of a regular expression does not match
IsLineTerminator(c) == c \in {"\n"}

RECURSIVE TrimStart(_)
TrimStart(s) ==
    IF s # << >> /\ IsSpace(Head(s)) THEN TrimStart(Tail(s)) ELSE s

RECURSIVE TrimEnd(_)
TrimEnd(s) ==
    IF s # << >> /\ IsSpace(s[Len(s)]) THEN TrimEnd(SubSeq(s, 1, Len(s) - 1)) ELSE s

\* String.prototype.trim
Trim(s) == TrimEnd(TrimStart(s))

StartsWith(s, prefix) ==
    /\ Len(s) >= Len(prefix)
    /\ SubSeq(s, 1, Len(prefix)) = prefix

Drop(s, n) == SubSeq(s, n + 1, Len(s))

\* the longest prefix of s that "." can match
RECURSIVE DotStar(_)
DotStar(s) ==
    IF s = << >> \/ IsLineTerminator(Head(s))
    THEN << >>
    ELSE <<Head(s)>> \o DotStar(Tail(s))

NoLineTerminator(s) == \A i \in 1..Len(s) : ~IsLineTerminator(s[i])

NoteWord == <<"N", "o", "t", "e", ":">>
ShapeWord == <<"!", "s", "h", "a", "p", "e", "[">>

\* token.text.match(/^>\s*Note:\s*(.*)/): << >> for null, else <<group 1>>
noteMatch(text) ==
    IF text = << >> \/ Head(text) # ">"
    THEN << >>
    ELSE LET afterQuote == TrimStart(Tail(text)) IN
         IF ~StartsWith(afterQuote, NoteWord)
         THEN << >>
         ELSE << DotStar(TrimStart(Drop(afterQuote, Len(NoteWord)))) >>

\* txt.match(/^!\[([^\]]*)\]\(([^)]+)\)$/): << >> for null, else <<alt, href>>
imgMatch(txt) ==
    IF ~StartsWith(txt, <<"!", "[">>)
    THEN << >>
    ELSE LET closers == { i \in 3..Len(txt) : txt[i] = "]" } IN
         IF closers = {}
         THEN << >>
         ELSE LET j == CHOOSE i \in closers : \A m \in closers : i <= m IN
              IF /\ Len(txt) >= j + 3
                 /\ txt[j + 1] = "("
                 /\ txt[Len(txt)] = ")"
                 /\ \A i \in (j + 2)..(Len(txt) - 1) : txt[i] # ")"
              THEN << SubSeq(txt, 3, j - 1), SubSeq(txt, j + 2, Len(txt) - 1) >>
              ELSE << >>

\* txt.match(/^!shape\[(.*)\]\((.*)\)$/): << >> for null, else <<name, options>>
\* both groups are greedy, so the split is at the last "](" that leaves
\* two groups free of line terminators
shapeMatch(txt) ==
    IF ~StartsWith(txt, ShapeWord) \/ txt[Len(txt)] # ")"
    THEN << >>
    ELSE LET first == Len(ShapeWord) + 1
             splits == { j \in first..(Len(txt) - 2) :
                            /\ txt[j] = "]"
                            /\ txt[j + 1] = "("
                            /\ NoLineTerminator(SubSeq(txt, first, j - 1))
                            /\ NoLineTerminator(SubSeq(txt, j + 2, Len(txt) - 1)) } IN
         IF splits = {}
         THEN << >>
         ELSE LET j == CHOOSE i \in splits : \A m \in splits : i >= m IN
              << SubSeq(txt, first, j - 1), SubSeq(txt, j + 2, Len(txt) - 1) >>

(***************************************************************************)
(* JSON.parse, for the option texts of shape paragraphs: objects, strings  *)
(* without escapes, decimal numbers without exponent, null, true, false.   *)
(* A parsed value is tagged with its JavaScript type; a number is held in  *)
(* thousandths.                                                            *)
(***************************************************************************)
JNum(n) == [t |-> "number", v |-> n]
JStr(str) == [t |-> "string", v |-> str]
JObj(f) == [t |-> "object", v |-> f]
JBool(b) == [t |-> "boolean", v |-> b]
JNull == [t |-> "null"]

Digits == {"0", "1", "2", "3", "4", "5", "6", "7", "8", "9"}

DigitVal(c) ==
    CASE c = "0" -> 0 [] c = "1" -> 1 [] c = "2" -> 2 [] c = "3" -> 3
      [] c = "4" -> 4 [] c = "5" -> 5 [] c = "6" -> 6 [] c = "7" -> 7
      [] c = "8" -> 8 [] c = "9" -> 9

JFail == [ok |-> FALSE]
JOk(val, pos) == [ok |-> TRUE, val |-> val, pos |-> pos]

\* the first index at or after i that holds no JSON whitespace
RECURSIVE SkipWS(_, _)
SkipWS(s, i) ==
    IF i <= Len(s) /\ IsSpace(s[i]) THEN SkipWS(s, i + 1) ELSE i

\* the first index at or after i that holds no digit
RECURSIVE DigitRun(_, _)
DigitRun(s, i) ==
    IF i <= Len(s) /\ s[i] \in Digits THEN DigitRun(s, i + 1) ELSE i

\* the integer written by the digits s[a..b-1]
RECURSIVE IntVal(_, _, _)
IntVal(s, a, b) ==
    IF a >= b THEN 0 ELSE IntVal(s, a, b - 1) * 10 + DigitVal(s[b - 1])

\* the thousandths written by the fraction digits s[a..b-1] (three digits kept)
FracVal(s, a, b) ==
    LET d(n) == IF a + n < b THEN DigitVal(s[a + n]) ELSE 0 IN
    d(0) * 100 + d(1) * 10 + d(2)

ParseNumber(s, i) ==
    LET neg == s[i] = "-"
        a == IF neg THEN i + 1 ELSE i
    IN  IF a > Len(s) \/ s[a] \notin Digits
        THEN JFail
        ELSE LET b == IF s[a] = "0" THEN a + 1 ELSE DigitRun(s, a)
                 hasFrac == b <= Len(s) /\ s[b] = "."
                 c == IF hasFrac THEN DigitRun(s, b + 1) ELSE b
                 abs == IntVal(s, a, b) * 1000
                            + (IF hasFrac THEN FracVal(s, b + 1, c) ELSE 0)
             IN  IF hasFrac /\ c = b + 1
                 THEN JFail
                 ELSE JOk(JNum(IF neg THEN 0 - abs ELSE abs), c)

\* the string whose opening quote is at i - 1
RECURSIVE ParseString(_, _, _)
ParseString(s, i, acc) ==
    IF i > Len(s) \/ s[i] = "\\" \/ s[i] = "\n" \/ s[i] = "\t"
    THEN JFail
    ELSE IF s[i] = "\""
         THEN JOk(JStr(acc), i + 1)
         ELSE ParseString(s, i + 1, acc \o s[i])

RECURSIVE ParseValue(_, _)
RECURSIVE ParseMembers(_, _, _)
ParseValue(s, i0) ==
    LET i == SkipWS(s, i0) IN
    IF i > Len(s)
    THEN JFail
    ELSE CASE s[i] = "{" ->
                LET j == SkipWS(s, i + 1) IN
                IF j <= Len(s) /\ s[j] = "}"
                THEN JOk(JObj(<< >>), j + 1)
                ELSE ParseMembers(s, j, << >>)
           [] s[i] = "\"" -> ParseString(s, i + 1, "")
           [] s[i] = "-" \/ s[i] \in Digits -> ParseNumber(s, i)
           [] StartsWith(Drop(s, i - 1), <<"n", "u", "l", "l">>) -> JOk(JNull, i + 4)
           [] StartsWith(Drop(s, i - 1), <<"t", "r", "u", "e">>) -> JOk(JBool(TRUE), i + 4)
           [] StartsWith(Drop(s, i - 1), <<"f", "a", "l", "s", "e">>) -> JOk(JBool(FALSE), i + 5)
           [] OTHER -> JFail

\* the members of an object from index i on, obj being those already read;
\* a repeated key keeps its last value
ParseMembers(s, i, obj) ==
    IF i > Len(s) \/ s[i] # "\""
    THEN JFail
    ELSE LET key == ParseString(s, i + 1, "") IN
         IF ~key.ok
         THEN JFail
         ELSE LET colon == SkipWS(s, key.pos) IN
              IF colon > Len(s) \/ s[colon] # ":"
              THEN JFail
              ELSE LET val == ParseValue(s, colon + 1) IN
                   IF ~val.ok
                   THEN JFail
                   ELSE LET next == SkipWS(s, val.pos)
                            obj2 == (key.val.v :> val.val) @@ obj
                        IN  IF next > Len(s)
                            THEN JFail
                            ELSE IF s[next] = "}"
                                 THEN JOk(JObj(obj2), next + 1)
                                 ELSE IF s[next] = ","
                                      THEN ParseMembers(s, SkipWS(s, next + 1), obj2)
                                      ELSE JFail

\* JSON.parse(text): << >> when it throws, else <<value>>
JSONParse(s) ==
    LET r == ParseValue(s, 1) IN
    IF r.ok /\ SkipWS(s, r.pos) = Len(s) + 1 THEN <<r.val>> ELSE << >>

(***************************************************************************)
(* shapeNameMap, src/src/index.tsx 10-28.  shapeNameMap[name] on a plain   *)
(* object also finds the twelve properties inherited from                  *)
(* Object.prototype, every one of them truthy.                             *)
(***************************************************************************)
ObjectPrototypeKeys ==
    { <<"c", "o", "n", "s", "t", "r", "u", "c", "t", "o", "r">>,
      <<"t", "o", "S", "t", "r", "i", "n", "g">>,
      <<"v", "a", "l", "u", "e", "O", "f">>,
      <<"h", "a", "s", "O", "w", "n", "P", "r", "o", "p", "e", "r", "t", "y">>,
      <<"_", "_", "p", "r", "o", "t", "o", "_", "_">>,
      <<"i", "s", "P", "r", "o", "t", "o", "t", "y", "p", "e", "O", "f">>,
      <<"p", "r", "o", "p", "e", "r", "t", "y", "I", "s", "E", "n", "u", "m", "e",
        "r", "a", "b", "l", "e">>,
      <<"t", "o", "L", "o", "c", "a", "l", "e", "S", "t", "r", "i", "n", "g">>,
      <<"_", "_", "d", "e", "f", "i", "n", "e", "G", "e", "t", "t", "e", "r", "_", "_">>,
      <<"_", "_", "d", "e", "f", "i", "n", "e", "S", "e", "t", "t", "e", "r", "_", "_">>,
      <<"_", "_", "l", "o", "o", "k", "u", "p", "G", "e", "t", "t", "e", "r", "_", "_">>,
      <<"_", "_", "l", "o", "o", "k", "u", "p", "S", "e", "t", "t", "e", "r", "_", "_">> }

\* << >> for undefined, else <<the value found>>
shapeNameMap(name) ==
    CASE name = <<"r", "e", "c", "t">> -> <<"rect">>
      [] name = <<"o", "v", "a", "l">> -> <<"ellipse">>
      [] name = <<"e", "l", "l", "i", "p", "s", "e">> -> <<"ellipse">>
      [] name = <<"l", "i", "n", "e">> -> <<"line">>
      [] name = <<"t", "r", "i", "a", "n", "g", "l", "e">> -> <<"triangle">>
      [] name \in ObjectPrototypeKeys -> <<"Object.prototype member">>
      [] OTHER -> << >>

(***************************************************************************)
(* The block tokens of marked.lexer that the model feeds to parseSlides    *)
(***************************************************************************)
\* > Note: n1
NoteText ==
    <<">", " ", "N", "o", "t", "e", ":", " ", "n", "1">>

\* >Note: n2 \nz   (two lines)
NoteText2 ==
    <<">", "N", "o", "t", "e", ":", " ", "n", "2", " ", "\n", "z">>

\* hi
PlainText ==
    <<"h", "i">>

\* ![alt](u.png)
ImageText ==
    <<"!", "[", "a", "l", "t", "]", "(", "u", ".", "p", "n", "g", ")">>

\*  !shape[oval]({"x":3, "h":2}) 
ShapeText ==
    <<" ", "!", "s", "h", "a", "p", "e", "[", "o", "v", "a", "l",
              "]", "(", "{", "\"", "x", "\"", ":", "3", ",", " ",
              "\"", "h", "\"", ":", "2", "}", ")", " ">>

\* !shape[hexagon]({})
ShapeTextUnknown ==
    <<"!", "s", "h", "a", "p", "e", "[", "h", "e", "x", "a", "g",
              "o", "n", "]", "(", "{", "}", ")">>

\* !shape[rect]({h:2})
ShapeTextBadJson ==
    <<"!", "s", "h", "a", "p", "e", "[", "r", "e", "c", "t", "]",
              "(", "{", "h", ":", "2", "}", ")">>

\* !shape[constructor]({})
ShapeTextInherited ==
    <<"!", "s", "h", "a", "p", "e", "[", "c", "o", "n", "s", "t",
              "r", "u", "c", "t", "o", "r", "]", "(", "{", "}", ")">>

HeadingTokens ==
    { [type |-> "heading", depth |-> 1, text |-> "A"],
      [type |-> "heading", depth |-> 1, text |-> "B"],
      [type |-> "heading", depth |-> 2, text |-> "S"] }

PlainInline == << [type |-> "text", text |-> "hi"] >>

ParagraphTokens ==
    { [type |-> "paragraph", text |-> NoteText, tokens |-> PlainInline],
      [type |-> "paragraph", text |-> NoteText2, tokens |-> PlainInline],
      [type |-> "paragraph", text |-> PlainText, tokens |-> PlainInline],
      [type |-> "paragraph", text |-> PlainText, tokens |-> << >>],
      [type |-> "paragraph", text |-> ImageText, tokens |-> PlainInline],
      [type |-> "paragraph", text |-> ShapeText, tokens |-> PlainInline],
      [type |-> "paragraph", text |-> ShapeTextUnknown, tokens |-> PlainInline],
      [type |-> "paragraph", text |-> ShapeTextBadJson, tokens |-> PlainInline],
      [type |-> "paragraph", text |-> ShapeTextInherited, tokens |-> PlainInline] }

\* a list item: marked wraps the item's inline tokens in one text token
Item(task, checked, inline) ==
    [task |-> task, checked |-> checked,
     tokens |-> << [type |-> "text", text |-> "x", tokens |-> inline] >>]

ListTokens ==
    { [type |-> "list",
       items |-> << Item(FALSE, FALSE, << [type |-> "text", text |-> "a"] >>),
                    Item(FALSE, FALSE, << >>),
                    Item(TRUE, TRUE, << [type |-> "strong",
                                         tokens |-> << [type |-> "text", text |-> "b"] >>] >>) >>],
      [type |-> "list",
       items |-> << Item(TRUE, FALSE, << [type |-> "text", text |-> ""],
                                         [type |-> "text", text |-> "c"] >>),
                    Item(TRUE, TRUE, << [type |-> "html", raw |-> ""] >>) >>] }

TableTokens ==
    { [type |-> "table",
       header |-> << [text |-> "H1"], [text |-> "H2"] >>,
       rows |-> << << [text |-> "1"], [text |-> "2"] >> >>] }

HrTokens == { [type |-> "hr"] }

\* block tokens of the kinds parseSlides has no case for
OtherTokens == { [type |-> "space"] }

(***************************************************************************)
(* parseSlides, src/src/index.tsx 106-200.  A slide is a record with       *)
(* title and elements, and with notes once a note was set.                 *)
(***************************************************************************)
\* the glyphs of a task item; the model writes the check boxes in ASCII
BoxChecked == "[x] "
BoxUnchecked == "[ ] "

push(cur, element) == [cur EXCEPT !.elements = Append(@, element)]

\* a heading of any depth starts a slide
startsSlideAnyDepth(token) == token.depth >= 1

\* case 'heading': does this token start a slide
startsSlide(token) == token.depth = 1

\* the new slide takes over the elements of the slide it replaces
newSlideKeepsElements(token, cur) ==
    [title |-> token.text,
     elements |-> IF cur # << >> THEN cur[1].elements ELSE << >>]

\* current = { title: token.text, elements: [] }; cur is the slide replaced
newSlide(token, cur) == [title |-> token.text, elements |-> << >>]

\* the first note of a slide is kept
setNotesFirstWins(cur, captured) ==
    IF "notes" \in DOMAIN cur THEN cur ELSE [notes |-> Trim(captured)] @@ cur

\* current.notes = noteMatch[1].trim()
setNotes(cur, captured) == [notes |-> Trim(captured)] @@ cur

\* the shape branch of case 'paragraph': the slide and the diagnostics after it
shapeBranch(cur, txt, match) ==
    LET shapeName == match[1]
        shapeType == shapeNameMap(shapeName)
    IN  IF shapeType = << >>
        THEN [cur |-> cur,
              errs |-> << [msg |-> "[ERROR] Invalid shape name:", arg |-> shapeName] >>]
        ELSE LET options == JSONParse(match[2]) IN
             IF options = << >>
             THEN [cur |-> cur,
                   errs |-> << [msg |-> "[ERROR] Invalid shape syntax:", arg |-> txt] >>]
             ELSE [cur |-> push(cur, [type |-> "shape", shape |-> shapeType[1],
                                      options |-> options[1]]),
                   errs |-> << >>]

\* case 'paragraph' with a current slide
caseParagraph(cur, token) ==
    LET note == noteMatch(token.text) IN
    IF note # << >>
    THEN [cur |-> setNotes(cur, note[1]), errs |-> << >>]
    ELSE LET txt == Trim(token.text)
             img == imgMatch(txt)
             shp == shapeMatch(txt)
         IN  IF img # << >>
             THEN [cur |-> push(cur, [type |-> "image", alt |-> img[1], href |-> img[2]]),
                   errs |-> << >>]
             ELSE IF shp # << >>
                  THEN shapeBranch(cur, txt, shp)
                  ELSE LET runs == parseTextRuns(token.tokens, << >>) IN
                       [cur |-> IF Len(runs) > 0
                                THEN push(cur, [type |-> "textBlock", runs |-> runs])
                                ELSE cur,
                        errs |-> << >>]

\* a task item is styled and then not pushed
listItemDropsTask(item) ==
    LET runs == parseTextRuns(item.tokens, << >>) IN
    IF Len(runs) > 0 /\ ~item.task
    THEN << [type |-> "textBlock",
             runs |-> [runs EXCEPT ![1].options = [bullet |-> TRUE] @@ @]] >>
    ELSE << >>

\* the elements one list item pushes: << >> or <<textBlock>>
listItem(item) ==
    LET runs == parseTextRuns(item.tokens, << >>) IN
    IF Len(runs) > 0
    THEN LET styled ==
                 IF item.task
                 THEN LET box == IF item.checked THEN BoxChecked ELSE BoxUnchecked IN
                      IF Truthy(runs[1].text)
                      THEN [runs EXCEPT ![1].text = box \o @]
                      ELSE << [text |-> box] >> \o runs
                 ELSE [runs EXCEPT ![1] =
                          [options |-> [bullet |-> TRUE]
                                         @@ (IF "options" \in DOMAIN @
                                             THEN @.options ELSE << >>)] @@ @]
         IN  << [type |-> "textBlock", runs |-> styled] >>
    ELSE << >>

\* case 'list' with a current slide
RECURSIVE caseList(_, _)
caseList(cur, items) ==
    IF items = << >>
    THEN cur
    ELSE caseList([cur EXCEPT !.elements = @ \o listItem(Head(items))], Tail(items))

\* case 'table' with a current slide
caseTable(cur, token) ==
    LET headers == [i \in 1..Len(token.header) |-> token.header[i].text]
        rows == [r \in 1..Len(token.rows) |->
                    [i \in 1..Len(token.rows[r]) |-> token.rows[r][i].text]]
    IN  push(cur, [type |-> "table", headers |-> headers, rows |-> rows])

\* case 'hr' with a current slide
caseHr(cur) == push(cur, [type |-> "columnBreak"])

CanConsume == ppc = "loop" /\ Len(consumed) < MaxTokens

Heading ==
    /\ CanConsume
    /\ \E token \in HeadingTokens :
        /\ consumed' = Append(consumed, token)
        /\ IF startsSlide(token)
           THEN /\ slides' = IF current # << >> THEN Append(slides, current[1]) ELSE slides
                /\ current' = << newSlide(token, current) >>
           ELSE UNCHANGED <<slides, current>>
    /\ UNCHANGED <<diag, ppc, runsVars, layoutVars>>

Paragraph ==
    /\ CanConsume
    /\ \E token \in ParagraphTokens :
        /\ consumed' = Append(consumed, token)
        /\ IF current = << >>
           THEN UNCHANGED <<current, diag>>
           ELSE LET r == caseParagraph(current[1], token) IN
                /\ current' = << r.cur >>
                /\ diag' = diag \o r.errs
    /\ UNCHANGED <<slides, ppc, runsVars, layoutVars>>

List ==
    /\ CanConsume
    /\ \E token \in ListTokens :
        /\ consumed' = Append(consumed, token)
        /\ current' = IF current = << >>
                      THEN current
                      ELSE << caseList(current[1], token.items) >>
    /\ UNCHANGED <<slides, diag, ppc, runsVars, layoutVars>>

Table ==
    /\ CanConsume
    /\ \E token \in TableTokens :
        /\ consumed' = Append(consumed, token)
        /\ current' = IF current = << >>
                      THEN current
                      ELSE << caseTable(current[1], token) >>
    /\ UNCHANGED <<slides, diag, ppc, runsVars, layoutVars>>

Hr ==
    /\ CanConsume
    /\ \E token \in HrTokens :
        /\ consumed' = Append(consumed, token)
        /\ current' = IF current = << >> THEN current ELSE << caseHr(current[1]) >>
    /\ UNCHANGED <<slides, diag, ppc, runsVars, layoutVars>>

\* default: break
OtherToken ==
    /\ CanConsume
    /\ \E token \in OtherTokens : consumed' = Append(consumed, token)
    /\ UNCHANGED <<slides, current, diag, ppc, runsVars, layoutVars>>

\* the token stream is exhausted: if (current) slides.push(current); return slides
Return ==
    /\ ppc = "loop"
    /\ slides' = IF current # << >> THEN Append(slides, current[1]) ELSE slides
    /\ ppc' = "returned"
    /\ UNCHANGED <<consumed, current, diag, runsVars, layoutVars>>

(***************************************************************************)
(* JavaScript numbers.  The layout computes in IEEE 754 doubles: a decimal *)
(* literal or a parsed number is the double nearest to it, and every sum   *)
(* and difference is rounded to 53 significant bits, ties to even.         *)
(* A double is [neg |-> sign, m |-> <<l2, l1, l0>>], its magnitude being   *)
(* (l2 * 2^48 + l1 * 2^24 + l0) * 2^-62 with l1, l0 < 2^24.  This holds    *)
(* every double of magnitude below 2^16 that is 0 or at least 2^-10, and   *)
(* the sums and differences of two such doubles; -0 is held as 0, which no *)
(* comparison or sum of the layout tells apart.                            *)
(***************************************************************************)
Limb == 2^24

Zero == [neg |-> FALSE, m |-> <<0, 0, 0>>]

\* the index of the highest bit of n > 0
RECURSIVE HighBit(_)
HighBit(n) == IF n <= 1 THEN 0 ELSE 1 + HighBit(n \div 2)

MagLess(a, b) ==
    \/ a[1] < b[1]
    \/ a[1] = b[1] /\ a[2] < b[2]
    \/ a[1] = b[1] /\ a[2] = b[2] /\ a[3] < b[3]

MagAdd(a, b) ==
    LET s0 == a[3] + b[3]
        s1 == a[2] + b[2] + s0 \div Limb
        s2 == a[1] + b[1] + s1 \div Limb
    IN  <<s2, s1 % Limb, s0 % Limb>>

\* a - b for a not less than b
MagSub(a, b) ==
    LET d0 == a[3] - b[3]
        b0 == IF d0 < 0 THEN 1 ELSE 0
        d1 == a[2] - b[2] - b0
        b1 == IF d1 < 0 THEN 1 ELSE 0
    IN  <<a[1] - b[1] - b1, d1 + b1 * Limb, d0 + b0 * Limb>>

\* the weight, in units of the lowest limb, of the last of the 53
\* significant bits; 1 for a magnitude of at most 53 bits.  From 2^14 on
\* that bit lies in the middle limb and the weight is 2^24 or more.
LastPlace(m) == IF m[1] < 32 THEN 1 ELSE 2^(HighBit(m[1]) - 4)

\* the magnitude rounded to 53 significant bits, ties to even; below says
\* how what was cut off below the lowest limb compares with half a unit of
\* that limb: "none", "less", "half" or "more"
RoundMag(m, below) ==
    LET q == LastPlace(m)
        inLow == q < Limb
        q1 == q \div Limb
        r == IF inLow THEN m[3] % q ELSE (m[2] % q1) * Limb + m[3]
        odd == IF inLow THEN (m[3] \div q) % 2 = 1 ELSE (m[2] \div q1) % 2 = 1
        up == IF q = 1
              THEN below = "more" \/ (below = "half" /\ odd)
              ELSE \/ 2 * r > q
                   \/ 2 * r = q /\ (below # "none" \/ odd)
        down == IF inLow
                THEN <<m[1], m[2], m[3] - r>>
                ELSE <<m[1], m[2] - (m[2] % q1), 0>>
        unit == IF inLow THEN <<0, 0, q>> ELSE <<0, q1, 0>>
    IN  IF up THEN MagAdd(down, unit) ELSE down

Signed(neg, m) == IF m = <<0, 0, 0>> THEN Zero ELSE [neg |-> neg, m |-> m]

\* a + b
DAdd(a, b) ==
    IF a.neg = b.neg
    THEN Signed(a.neg, RoundMag(MagAdd(a.m, b.m), "none"))
    ELSE IF MagLess(a.m, b.m)
         THEN Signed(b.neg, RoundMag(MagSub(b.m, a.m), "none"))
         ELSE Signed(a.neg, RoundMag(MagSub(a.m, b.m), "none"))

\* a - b
DSub(a, b) == DAdd(a, Signed(~b.neg, b.m))

\* a < b
DLess(a, b) ==
    CASE a.neg /\ ~b.neg -> TRUE
      [] ~a.neg /\ b.neg -> FALSE
      [] a.neg /\ b.neg -> MagLess(b.m, a.m)
      [] OTHER -> MagLess(a.m, b.m)

\* a <= b
DLeq(a, b) == ~DLess(b, a)

\* Math.min(a, b)
DMin(a, b) == IF DLess(b, a) THEN b ELSE a

\* the next 12 binary digits of r / 1000 for a remainder r < 1000
Digit12(r) == (r * 4096) \div 1000
Rest12(r) == (r * 4096) % 1000

\* the double nearest to n / 1000: what the decimal literal or the JSON
\* number of n thousandths evaluates to
Double(n) ==
    LET abs == IF n < 0 THEN 0 - n ELSE n
        r0 == abs % 1000
        l2 == (abs \div 1000) * 16384 + (r0 * 16384) \div 1000
        r1 == (r0 * 16384) % 1000
        r2 == Rest12(r1)
        r3 == Rest12(r2)
        r4 == Rest12(r3)
        r5 == Rest12(r4)
        guard == Digit12(r4)
        below == CASE guard = 0 /\ r5 = 0 -> "none"
                   [] guard < 2048 -> "less"
                   [] guard = 2048 /\ r5 = 0 -> "half"
                   [] OTHER -> "more"
        m == <<l2, Digit12(r1) * 4096 + Digit12(r2),
               Digit12(r3) * 4096 + Digit12(r4)>>
    IN  Signed(n < 0, RoundMag(m, below))

(***************************************************************************)
(* buildPptx and renderElements, src/src/index.tsx 205-274.                *)
(* A number the source writes (5.625) or JSON.parse reads is held as its   *)
(* decimal, in thousandths (5625); Double gives the double it evaluates    *)
(* to.  A number the layout computes (the cursor, the space left, the      *)
(* height of a text block) is held as that double.                         *)
(***************************************************************************)
SlideHeight == 5625
BottomMargin == 250
MinRemaining == 100
LineHeight == 500
TextGap == 100
ImageHeight == 3000
ImageAdvance == 3200
RowHeight == 500
TableBase == 500
DefaultShapeHeight == 1000
ShapeGap == 200
YPos == 1200
LeftX == 500
FullWidth == 9000
ColumnWidth == 4500
RightX == 5200
TitleY == 300
TitleHeight == 750

\* the doubles the literals of renderElements and buildPptx evaluate to
slideHeight == Double(SlideHeight)
bottomMargin == Double(BottomMargin)
minRemaining == Double(MinRemaining)
textGap == Double(TextGap)
imageAdvance == Double(ImageAdvance)
tableBase == Double(TableBase)
shapeGap == Double(ShapeGap)
yPosStart == Double(YPos)

\* the index of the last columnBreak, 0 when there is none
breakIdxLast(elements) ==
    LET B == { i \in 1..Len(elements) : elements[i].type = "columnBreak" } IN
    IF B = {} THEN 0 ELSE CHOOSE i \in B : \A j \in B : i >= j

\* elements.findIndex((e) => e.type === 'columnBreak'), counted from 1,
\* 0 when findIndex returns -1
breakIdx(elements) ==
    LET B == { i \in 1..Len(elements) : elements[i].type = "columnBreak" } IN
    IF B = {} THEN 0 ELSE CHOOSE i \in B : \A j \in B : i <= j

\* the margin is left out
remainingHeightNoMargin(y) == DSub(slideHeight, y)

\* const remainingHeight = slideHeight - yOffset - bottomMargin
remainingHeight(y) ==
    DSub(DSub(slideHeight, y), bottomMargin)

\* the second column starts where the first one ended
secondColumnYContinues(yPos, returned) == returned

\* the y passed to the second renderElements call; returned is the value the
\* first call returned
secondColumnY(yPos, returned) == yPos

Min(a, b) == IF a <= b THEN a ELSE b

\* run.options?.breakLine
BreaksLine(run) ==
    /\ "options" \in DOMAIN run
    /\ "breakLine" \in DOMAIN run.options
    /\ run.options.breakLine = TRUE

\* el.runs.reduce((acc, run) => acc + (run.options?.breakLine ? 1 : 0), 1)
estimatedLines(runs) ==
    1 + Cardinality({ i \in 1..Len(runs) : BreaksLine(runs[i]) })

\* the estimate is not capped at the space that is left
estimatedHeightUncapped(el, remaining) ==
    Double(estimatedLines(el.runs) * LineHeight)

\* Math.min(remainingHeight, estimatedLines * 0.5); half an integer is exact
estimatedHeight(el, remaining) ==
    DMin(remaining, Double(estimatedLines(el.runs) * LineHeight))

\* the own enumerable properties an object spread copies from a parsed value
\* (the layout is given object, null, number and boolean options)
OwnProperties(value) == IF value.t = "object" THEN value.v ELSE << >>

\* const finalOptions = { x, w, ...el.options, y: yOffset }; y is the cursor
finalOptions(el, x, w, y) ==
    [y |-> JNum(y)] @@ OwnProperties(el.options) @@ [x |-> JNum(x), w |-> JNum(w)]

\* (finalOptions.h as number || 1), for h a number, a boolean, null or absent
shapeHeight(options) ==
    IF "h" \notin DOMAIN options
    THEN DefaultShapeHeight
    ELSE CASE options.h.t = "number" ->
                 IF options.h.v = 0 THEN DefaultShapeHeight ELSE options.h.v
           [] options.h.t = "boolean" -> DefaultShapeHeight
           [] options.h.t = "null" -> DefaultShapeHeight

\* a tagged value without its tag
Plain(value) == IF value.t = "null" THEN "null" ELSE value.v

\* the call one loop iteration makes for el: << >> or <<call>>
placeCall(el, x, y, w, remaining) ==
    CASE el.type = "textBlock" ->
            << [fn |-> "addText",
                opts |-> [x |-> x, y |-> y, w |-> w, h |-> estimatedHeight(el, remaining)]] >>
      [] el.type = "image" ->
            << [fn |-> "addImage", opts |-> [x |-> x, y |-> y, w |-> w, h |-> ImageHeight]] >>
      [] el.type = "table" ->
            << [fn |-> "addTable", opts |-> [x |-> x, y |-> y, w |-> w]] >>
      [] el.type = "shape" ->
            LET fo == finalOptions(el, x, w, y) IN
            << [fn |-> "addShape", opts |-> [key \in DOMAIN fo |-> Plain(fo[key])]] >>
      [] OTHER -> << >>

\* what one loop iteration adds to yOffset
advance(el, x, y, w, remaining) ==
    CASE el.type = "textBlock" ->
            DAdd(estimatedHeight(el, remaining), textGap)
      [] el.type = "image" -> imageAdvance
      [] el.type = "table" ->
            DAdd(Double(Len(el.rows) * RowHeight), tableBase)
      [] el.type = "shape" ->
            DAdd(Double(shapeHeight(finalOptions(el, x, w, y))), shapeGap)
      [] OTHER -> Zero

\* the position in slide.elements of the element the loop is at
ElementIndex == IF lpc = "col2" THEN breakIdx(slide.elements) + k ELSE k

InColumn == lpc \in {"single", "col1", "col2"}

\* the first statements of the loop body of buildPptx: title, notes, findIndex
\* and the entry into the first renderElements call
BuildSlide ==
    /\ lpc = "start"
    /\ LET b == breakIdx(slide.elements)
           title == [fn |-> "addText", col |-> "title", idx |-> 0,
                     opts |-> [x |-> LeftX, y |-> TitleY, w |-> FullWidth,
                               h |-> TitleHeight]]
           notes == IF "notes" \in DOMAIN slide /\ slide.notes # << >>
                    THEN << [fn |-> "addNotes", col |-> "notes", idx |-> 0,
                             opts |-> << >>] >>
                    ELSE << >>
       IN  /\ calls' = <<title>> \o notes
           /\ yOffset' = yPosStart
           /\ colX' = LeftX
           /\ k' = 1
           /\ IF b = 0
              THEN /\ lpc' = "single"
                   /\ elems' = slide.elements
                   /\ colW' = FullWidth
              ELSE /\ lpc' = "col1"
                   /\ elems' = SubSeq(slide.elements, 1, b - 1)
                   /\ colW' = ColumnWidth
    /\ UNCHANGED <<slide, runsVars, parseVars>>

\* renderElements returns: the caller makes its second call, or is done
ReturnFromColumn ==
    IF lpc = "col1"
    THEN /\ lpc' = "col2"
         /\ elems' = SubSeq(slide.elements, breakIdx(slide.elements) + 1,
                            Len(slide.elements))
         /\ k' = 1
         /\ yOffset' = secondColumnY(yPosStart, yOffset)
         /\ colX' = RightX
         /\ colW' = ColumnWidth
         /\ UNCHANGED <<slide, calls>>
    ELSE /\ lpc' = "done"
         /\ UNCHANGED <<slide, elems, k, yOffset, colX, colW, calls>>

\* one iteration of the loop of renderElements that passes the space check
Place ==
    /\ InColumn
    /\ k <= Len(elems)
    /\ ~DLeq(remainingHeight(yOffset), minRemaining)
    /\ LET el == elems[k]
           remaining == remainingHeight(yOffset)
           made == placeCall(el, colX, yOffset, colW, remaining)
       IN  /\ calls' = calls \o [i \in 1..Len(made) |->
                                   [col |-> lpc, idx |-> ElementIndex] @@ made[i]]
           /\ yOffset' = DAdd(yOffset, advance(el, colX, yOffset, colW, remaining))
    /\ k' = k + 1
    /\ UNCHANGED <<slide, lpc, elems, colX, colW, runsVars, parseVars>>

\* if (remainingHeight <= 0.1) break, and the return that follows
Break ==
    /\ InColumn
    /\ k <= Len(elems)
    /\ DLeq(remainingHeight(yOffset), minRemaining)
    /\ ReturnFromColumn
    /\ UNCHANGED <<runsVars, parseVars>>

\* the loop has passed the last element: return yOffset
LoopEnd ==
    /\ InColumn
    /\ k > Len(elems)
    /\ ReturnFromColumn
    /\ UNCHANGED <<runsVars, parseVars>>

(***************************************************************************)
(* The slides given to the layout: elements as parseSlides builds them.    *)
(* parseTextRuns sets no breakLine option, so every text block is one line *)
(***************************************************************************)
LayoutElements ==
    { [type |-> "textBlock", runs |-> << [text |-> "hi", options |-> << >>] >>],
      [type |-> "textBlock",
       runs |-> << [text |-> "a", options |-> [bold |-> TRUE]],
                   [text |-> "b", options |-> << >>] >>],
      [type |-> "image", alt |-> <<"a">>, href |-> <<"u">>],
      [type |-> "table", headers |-> <<"H">>, rows |-> << >>],
      [type |-> "table", headers |-> <<"H">>, rows |-> << <<"1">>, <<"2">> >>],
      [type |-> "shape", shape |-> "rect", options |-> JObj(<< >>)],
      [type |-> "shape", shape |-> "ellipse",
       options |-> JObj([x |-> JNum(3000), y |-> JNum(4000),
                         w |-> JNum(2000), h |-> JNum(2000)])],
      [type |-> "shape", shape |-> "rect", options |-> JObj([h |-> JNum(9000)])],
      [type |-> "shape", shape |-> "line", options |-> JObj([h |-> JNum(-1000)])],
      [type |-> "columnBreak"] }

\* the slides of at most MaxElems elements
InitLayout ==
    /\ \E n \in 0..MaxElems : \E e \in [1..n -> LayoutElements] :
          slide = [title |-> "A", elements |-> e]
    /\ lpc = "start"
    /\ elems = << >>
    /\ k = 0
    /\ yOffset = Zero
    /\ colX = 0
    /\ colW = 0
    /\ calls = << >>
    /\ IdleRuns
    /\ IdleParse

NextLayout == BuildSlide \/ Place \/ Break \/ LoopEnd

SpecLayout == InitLayout /\ [][NextLayout]_vars

(***************************************************************************)
(* SpecRuns: parseTextRuns applied to every bounded inline token list      *)
(***************************************************************************)
InitRuns ==
    /\ \E n \in 0..MaxNodes : tokensIn \in ForestsOfSize(n)
    /\ runsOut = << >>
    /\ IdleParse
    /\ IdleLayout

CallParseTextRuns ==
    /\ runsOut = << >>
    /\ lpc = "idle" /\ ppc = "idle"
    /\ runsOut' = << parseTextRuns(tokensIn, << >>) >>
    /\ UNCHANGED <<tokensIn, parseVars, layoutVars>>

NextRuns == CallParseTextRuns

SpecRuns == InitRuns /\ [][NextRuns]_vars

Init ==
    /\ consumed = << >>
    /\ slides = << >>
    /\ current = << >>
    /\ diag = << >>
    /\ ppc = "loop"
    /\ IdleRuns
    /\ IdleLayout

Next == Heading \/ Paragraph \/ List \/ Table \/ Hr \/ OtherToken \/ Return

Spec == Init /\ [][Next]_vars

(***************************************************************************)
(* The token stream seen from outside: where the depth-1 headings are and  *)
(* which tokens lie between two of them                                    *)
(***************************************************************************)
IsDepth1Heading(token) == token.type = "heading" /\ token.depth = 1

\* the indexes of the depth-1 headings of the consumed stream, in order
H1Positions ==
    LET P == { i \in 1..Len(consumed) : IsDepth1Heading(consumed[i]) }
        nth[n \in 0..Cardinality(P)] ==
            IF n = 0 THEN 0
            ELSE CHOOSE i \in P : Cardinality({ j \in P : j < i }) = n - 1
    IN  [n \in 1..Cardinality(P) |-> nth[n]]

\* the tokens after the n-th depth-1 heading and before the next one
Segment(n) ==
    LET from == H1Positions[n] + 1
        to == IF n < Len(H1Positions) THEN H1Positions[n + 1] - 1 ELSE Len(consumed)
    IN  SubSeq(consumed, from, to)

\* the slides made so far: those pushed, and the current one until it is pushed
Emitted == IF ppc = "returned" THEN slides ELSE slides \o current

\* a step of the loop that consumed one token
Consumed1 == Len(consumed') = Len(consumed) + 1
LastToken == consumed'[Len(consumed')]

\* what one token between two headings does to the slide it belongs to
applyToken(cur, token) ==
    CASE token.type = "paragraph" -> caseParagraph(cur, token).cur
      [] token.type = "list" -> caseList(cur, token.items)
      [] token.type = "table" -> caseTable(cur, token)
      [] token.type = "hr" -> caseHr(cur)
      [] OTHER -> cur

RECURSIVE applyTokens(_, _)
applyTokens(cur, tokens) ==
    IF tokens = << >> THEN cur
    ELSE applyTokens(applyToken(cur, Head(tokens)), Tail(tokens))

(***************************************************************************)
(* Claims about parseSlides                                                *)
(***************************************************************************)
\* C1: parseSlides makes exactly one slide per depth-1 heading of the token
\* stream, in the order of the headings, each titled with its heading's
\* text; headings of another depth start no slide.
C1_OneSlidePerDepth1Heading ==
    /\ Len(Emitted) = Len(H1Positions)
    /\ \A n \in 1..Len(Emitted) : Emitted[n].title = consumed[H1Positions[n]].text

\* parseSlides returned two slides with different titles from a stream that
\* also held a deeper heading
C1_Witness ==
    /\ ppc = "returned"
    /\ Len(slides) = 2
    /\ slides[1].title # slides[2].title
    /\ \E i \in 1..Len(consumed) :
          consumed[i].type = "heading" /\ consumed[i].depth # 1

\* C2: every slide holds exactly what the tokens between its depth-1 heading
\* and the next one put there; a token before the first depth-1 heading
\* changes nothing, and a slide already pushed is never changed again.
C2_SlideOwnsItsSegment ==
    /\ [](\A n \in 1..Len(Emitted) :
            Emitted[n] = applyTokens([title |-> consumed[H1Positions[n]].text,
                                      elements |-> << >>], Segment(n)))
    /\ [][/\ Len(slides') >= Len(slides)
          /\ SubSeq(slides', 1, Len(slides)) = slides
          /\ (Consumed1 /\ current = << >> /\ ~IsDepth1Heading(LastToken))
                => (slides' = slides /\ current' = current /\ diag' = diag)]_vars

\* a second slide is being filled after a first one with content was pushed
C2_Witness ==
    /\ Len(slides) = 1
    /\ slides[1].elements # << >>
    /\ current # << >>
    /\ current[1].elements # << >>

\* the paragraphs the shape pattern applies to
IsShapeParagraph(token) ==
    /\ token.type = "paragraph"
    /\ noteMatch(token.text) = << >>
    /\ imgMatch(Trim(token.text)) = << >>
    /\ shapeMatch(Trim(token.text)) # << >>

KnownShapeNames ==
    { <<"r", "e", "c", "t">>, <<"o", "v", "a", "l">>,
      <<"e", "l", "l", "i", "p", "s", "e">>, <<"l", "i", "n", "e">>,
      <<"t", "r", "i", "a", "n", "g", "l", "e">> }

IsInvalidShape(token) ==
    LET m == shapeMatch(Trim(token.text)) IN
    m[1] \notin KnownShapeNames \/ JSONParse(m[2]) = << >>

\* C4: a shape paragraph on a current slide whose name is none of rect, oval,
\* ellipse, line, triangle, or whose options are not valid JSON, appends no
\* element, makes exactly one diagnostic and leaves the current slide as it
\* was, the loop going on.
C4_InvalidShapeDropped ==
    [][(Consumed1 /\ current # << >> /\ IsShapeParagraph(LastToken)
            /\ IsInvalidShape(LastToken))
         => /\ current' = current
            /\ Len(diag') = Len(diag) + 1
            /\ ppc' = "loop"]_vars

\* the text after "Note:" of a paragraph that matches the note pattern
MatchesNote(text) ==
    /\ text # << >>
    /\ Head(text) = ">"
    /\ StartsWith(TrimStart(Tail(text)), NoteWord)

AfterNote(text) == Drop(TrimStart(Tail(text)), Len(NoteWord))

\* s up to its first line break
FirstLine(s) ==
    LET breaks == { i \in 1..Len(s) : s[i] = "\n" } IN
    IF breaks = {} THEN s
    ELSE SubSeq(s, 1, (CHOOSE i \in breaks : \A j \in breaks : i <= j) - 1)

IsNoteParagraph(token) == token.type = "paragraph" /\ MatchesNote(token.text)

\* the notes of every slide are noteText of the last note paragraph of its
\* segment, and a slide without a note paragraph has no notes
NotesAreLastNote(noteText(_)) ==
    \A n \in 1..Len(Emitted) :
        LET noteParas == SelectSeq(Segment(n), IsNoteParagraph) IN
        IF noteParas = << >>
        THEN "notes" \notin DOMAIN Emitted[n]
        ELSE /\ "notes" \in DOMAIN Emitted[n]
             /\ Emitted[n].notes = noteText(noteParas[Len(noteParas)].text)

NoteAppendsNothing ==
    (Consumed1 /\ current # << >> /\ IsNoteParagraph(LastToken))
        => current'[1].elements = current[1].elements

WholeNote(text) == Trim(AfterNote(text))

\* C6 as stated: a note paragraph sets the notes to the whole text after
\* "Note:", trimmed, and appends no element; the last note paragraph wins.
C6_NotesAreTextAfterNote ==
    [](NotesAreLastNote(WholeNote)) /\ [][NoteAppendsNothing]_vars

LineNote(text) == Trim(FirstLine(TrimStart(AfterNote(text))))

\* C6 amended: a note paragraph sets the notes to the text after "Note:",
\* leading white space skipped, up to the end of that line, trimmed, and
\* appends no element; the last note paragraph of a slide wins.
C6_NotesAreLineAfterNote ==
    [](NotesAreLastNote(LineNote)) /\ [][NoteAppendsNothing]_vars

\* a slide that got two note paragraphs of different text, no element
C6_Witness ==
    /\ current # << >>
    /\ current[1].elements = << >>
    /\ "notes" \in DOMAIN current[1]
    /\ LET noteParas == SelectSeq(Segment(Len(Emitted)), IsNoteParagraph) IN
       /\ Len(noteParas) = 2
       /\ LineNote(noteParas[1].text) # LineNote(noteParas[2].text)

\* the texts of a run sequence, concatenated
RECURSIVE JoinText(_)
JoinText(runs) ==
    IF runs = << >> THEN "" ELSE Head(runs).text \o JoinText(Tail(runs))

ListStep == Consumed1 /\ current # << >> /\ LastToken.type = "list"

\* the elements a step appended to the current slide
Appended ==
    SubSeq(current'[1].elements, Len(current[1].elements) + 1,
           Len(current'[1].elements))

\* C7 as stated: a list appends exactly one TextBlock per item, also for an
\* item whose inline content resolves to no runs.
C7_OneBlockPerItem ==
    [][ListStep
        => /\ Len(current'[1].elements)
                 = Len(current[1].elements) + Len(LastToken.items)
           /\ \A i \in 1..Len(Appended) : Appended[i].type = "textBlock"]_vars

\* C7 amended: a list appends one TextBlock per item whose inline content
\* resolves to at least one run, in list order, and nothing for an item
\* that resolves to no runs; the block of a task item reads the glyph and
\* then the item's text, the first run of a plain item carries the bullet.
C7_OneBlockPerNonEmptyItem ==
    [][ListStep
        => LET HasRuns(item) == parseTextRuns(item.tokens, << >>) # << >>
               items == SelectSeq(LastToken.items, HasRuns)
           IN  /\ SubSeq(current'[1].elements, 1, Len(current[1].elements))
                     = current[1].elements
               /\ Len(Appended) = Len(items)
               /\ \A i \in 1..Len(items) :
                    LET inline == JoinText(parseTextRuns(items[i].tokens, << >>))
                        block == Appended[i]
                    IN  /\ block.type = "textBlock"
                        /\ IF items[i].task
                           THEN JoinText(block.runs)
                                  = (IF items[i].checked THEN "[x] " ELSE "[ ] ")
                                        \o inline
                           ELSE /\ JoinText(block.runs) = inline
                                /\ block.runs[1].options.bullet = TRUE]_vars

\* a list with a plain item, an item without runs and a task item has put
\* two blocks on the slide
C7_Witness ==
    /\ current # << >>
    /\ Len(consumed) >= 2
    /\ consumed[Len(consumed)].type = "list"
    /\ Len(consumed[Len(consumed)].items) = 3
    /\ IsDepth1Heading(consumed[Len(consumed) - 1])
    /\ Len(current[1].elements) = 2

(***************************************************************************)
(* Claims about the layout                                                 *)
(***************************************************************************)
\* the space left under a cursor, 5.625 - y - 0.25 in the doubles of the code
Inches5625 == Double(5625)
Inches5375 == Double(5375)
Inches1200 == Double(1200)
Inches0250 == Double(250)
Inches0100 == Double(100)

SpaceLeft(y) == DSub(DSub(Inches5625, y), Inches0250)

IsElementCall(c) == c.col \in {"single", "col1", "col2"}

\* the position of the first columnBreak of the slide, 0 without one
FirstBreak ==
    LET e == slide.elements IN
    IF \A i \in 1..Len(e) : e[i].type # "columnBreak"
    THEN 0
    ELSE CHOOSE i \in 1..Len(e) :
            /\ e[i].type = "columnBreak"
            /\ \A j \in 1..(i - 1) : e[j].type # "columnBreak"

\* the positions in slide.elements that belong to a column
ColumnIndexes(col) ==
    CASE col = "single" -> 1..Len(slide.elements)
      [] col = "col1" -> 1..(FirstBreak - 1)
      [] col = "col2" -> (FirstBreak + 1)..Len(slide.elements)

ColumnOrigin(col) == IF col = "col2" THEN 5200 ELSE 500
ColumnExtent(col) == IF col = "single" THEN 9000 ELSE 4500

\* the loop of renderElements passes the element it is at
PassesElement == InColumn /\ k <= Len(elems) /\ k' = k + 1

\* C3: the layout splits at the first ColumnBreak only: what lies before it
\* is laid out in column 1, everything after it in column 2, there is no
\* third column; without a ColumnBreak there is one full-width column; a
\* ColumnBreak is never placed and never moves the cursor.
C3_SplitAtFirstBreak ==
    /\ [](\A i \in 1..Len(calls) :
            LET c == calls[i] IN
            IsElementCall(c) =>
              /\ slide.elements[c.idx].type # "columnBreak"
              /\ IF FirstBreak = 0
                 THEN c.col = "single"
                 ELSE \/ c.idx < FirstBreak /\ c.col = "col1"
                      \/ c.idx > FirstBreak /\ c.col = "col2"
              /\ c.fn # "addShape"
                    => c.opts.x = ColumnOrigin(c.col) /\ c.opts.w = ColumnExtent(c.col))
    /\ [][(PassesElement /\ elems[k].type = "columnBreak")
            => (yOffset' = yOffset /\ calls' = calls)]_vars

\* a slide with two ColumnBreaks, laid out, has an element in column 1 and
\* one after the second break in column 2
C3_Witness ==
    /\ lpc = "done"
    /\ \E b \in 1..Len(slide.elements) :
          /\ b > FirstBreak
          /\ slide.elements[b].type = "columnBreak"
          /\ \E i \in 1..Len(calls) : calls[i].col = "col2" /\ calls[i].idx > b
    /\ \E i \in 1..Len(calls) : calls[i].col = "col1"

\* C5: a shape is placed at the column's x and at the cursor, whatever x and
\* y its options carry.
C5_ShapeAtColumnOrigin ==
    [][(PassesElement /\ elems[k].type = "shape")
         => LET c == calls'[Len(calls')] IN
            /\ c.fn = "addShape"
            /\ c.opts.x = colX
            /\ c.opts.y = yOffset]_vars

\* consecutive calls of one column keep the order of the elements and go down
\* the slide, and the first call of every column is at the same offset
OrderedDownwards ==
    /\ \A i \in 1..(Len(calls) - 1) :
          (IsElementCall(calls[i]) /\ calls[i + 1].col = calls[i].col)
             => /\ calls[i].idx < calls[i + 1].idx
                /\ DLess(calls[i].opts.y, calls[i + 1].opts.y)
    /\ \A i \in 2..Len(calls) :
          (IsElementCall(calls[i]) /\ calls[i - 1].col # calls[i].col)
             => calls[i].opts.y = Inches1200

\* C9 as stated: in each column the placed elements keep their order and
\* their y strictly increases, with shapes of any declared height; the first
\* placed element of every column is at the same fixed offset.
C9_OrderedDownwardsAnyHeight == OrderedDownwards

\* every shape of the slide declares no height or a number that is not negative
HeightsNotNegative ==
    \A i \in 1..Len(slide.elements) :
        LET el == slide.elements[i] IN
        (el.type = "shape" /\ "h" \in DOMAIN OwnProperties(el.options))
            => /\ el.options.v.h.t = "number"
               /\ el.options.v.h.v >= 0

\* C9 amended: in each column the placed elements keep their order and their
\* y strictly increases, for every element list whose shapes declare no
\* height or a non-negative number; the first placed element of every column
\* is at the same fixed offset.
C9_OrderedDownwardsPositiveHeights == HeightsNotNegative => OrderedDownwards

\* two columns laid out, two elements in the first, one in the second, one
\* of them a shape with a declared height
C9_Witness ==
    /\ lpc = "done"
    /\ HeightsNotNegative
    /\ Cardinality({ i \in 1..Len(calls) : calls[i].col = "col1" }) >= 2
    /\ \E i \in 1..Len(calls) : calls[i].col = "col2"
    /\ \E i \in 1..Len(calls) : calls[i].fn = "addShape" /\ "h" \in DOMAIN calls[i].opts

\* C10: in each column the placed elements are a prefix of the column
\* (ColumnBreaks aside): once the space left is at or below the threshold
\* before an element the column is left without a call or a diagnostic, and
\* no element is placed where the space left is at or below the threshold.
C10_PlacedIsPrefix ==
    /\ [](/\ diag = << >>
          /\ \A i \in 1..Len(calls) :
                LET c == calls[i] IN
                IsElementCall(c) =>
                  /\ DLess(Inches0100, SpaceLeft(c.opts.y))
                  /\ \A j \in ColumnIndexes(c.col) :
                        (j < c.idx /\ slide.elements[j].type # "columnBreak")
                           => \E d \in 1..Len(calls) :
                                 calls[d].col = c.col /\ calls[d].idx = j)
    /\ [][(InColumn /\ k <= Len(elems) /\ DLeq(SpaceLeft(yOffset), Inches0100))
            => (calls' = calls /\ lpc' # lpc /\ diag' = diag)]_vars

\* a slide laid out with an element left unplaced behind a placed one
C10_Witness ==
    /\ lpc = "done"
    /\ \E i \in 1..Len(calls) : IsElementCall(calls[i])
    /\ \E j \in 1..Len(slide.elements) :
          /\ slide.elements[j].type # "columnBreak"
          /\ \A i \in 1..Len(calls) : calls[i].idx # j

(***************************************************************************)
(* Claims about parseTextRuns                                              *)
(***************************************************************************)
Kids(token) == IF "tokens" \in DOMAIN token THEN token.tokens ELSE << >>

\* the paths (child indexes from the top) of all nodes of a token list
RECURSIVE PathsOf(_)
PathsOf(tokens) ==
    UNION { { <<i>> } \cup { <<i>> \o q : q \in PathsOf(Kids(tokens[i])) }
            : i \in 1..Len(tokens) }

RECURSIVE NodeAt(_, _)
NodeAt(tokens, path) ==
    IF Len(path) = 1
    THEN tokens[path[1]]
    ELSE NodeAt(Kids(tokens[path[1]]), Tail(path))

\* the nodes that stand for text of their own
IsLeaf(token) ==
    CASE token.type \in {"strong", "em", "link"} -> FALSE
      [] token.type = "text" -> "tokens" \notin DOMAIN token
      [] token.type = "codespan" -> TRUE
      [] OTHER -> token.raw # ""

LeafPaths(tokens) == { q \in PathsOf(tokens) : IsLeaf(NodeAt(tokens, q)) }

\* p is left of q in the tree
LeftOf(p, q) ==
    \E i \in 1..Min(Len(p), Len(q)) :
        /\ p[i] < q[i]
        /\ \A j \in 1..(i - 1) : p[j] = q[j]

\* the tokens a node is nested inside
Ancestors(tokens, path) ==
    { NodeAt(tokens, SubSeq(path, 1, d)) : d \in 1..(Len(path) - 1) }

LeafText(token) ==
    CASE token.type = "text" -> token.text
      [] token.type = "codespan" -> " " \o token.text \o " "
      [] OTHER -> token.raw

\* C8: parseTextRuns returns one run per leaf of the token tree, in the
\* left-to-right order of the leaves, and each run carries the flag of every
\* bold, italic and hyperlink token its leaf is nested inside.
C8_RunsCarryAncestorFlags ==
    runsOut # << >> =>
        LET runs == runsOut[1]
            leaves == LeafPaths(tokensIn)
        IN  /\ Len(runs) = Cardinality(leaves)
            /\ \A q \in leaves :
                 LET run == runs[Cardinality({ r \in leaves : LeftOf(r, q) }) + 1]
                     above == Ancestors(tokensIn, q)
                 IN  /\ run.text = LeafText(NodeAt(tokensIn, q))
                     /\ (\E a \in above : a.type = "strong")
                           => ("bold" \in DOMAIN run.options /\ run.options.bold = TRUE)
                     /\ (\E a \in above : a.type = "em")
                           => ("italic" \in DOMAIN run.options /\ run.options.italic = TRUE)
                     /\ (\E a \in above : a.type = "link")
                           => "hyperlink" \in DOMAIN run.options

\* a run that is bold and a hyperlink came out of a link inside bold
C8_Witness ==
    /\ runsOut # << >>
    /\ \E i \in 1..Len(tokensIn) :
          /\ tokensIn[i].type = "strong"
          /\ \E j \in 1..Len(tokensIn[i].tokens) : tokensIn[i].tokens[j].type = "link"
    /\ \E i \in 1..Len(runsOut[1]) :
          /\ "bold" \in DOMAIN runsOut[1][i].options
          /\ "hyperlink" \in DOMAIN runsOut[1][i].options

\* the inline kinds parseTextRuns has a case for
KnownInlineTypes == {"strong", "em", "codespan", "link", "text"}

\* the paths of the tokens of any other kind
OtherPaths(tokens) ==
    { q \in PathsOf(tokens) : NodeAt(tokens, q).type \notin KnownInlineTypes }

\* the run that stands for the leaf at path q
RunOf(runs, tokens, q) ==
    runs[Cardinality({ r \in LeafPaths(tokens) : LeftOf(r, q) }) + 1]

\* the depths at which the token at path q has an ancestor of a type
DepthsOf(tokens, q, type) ==
    { d \in 1..(Len(q) - 1) : NodeAt(tokens, SubSeq(q, 1, d)).type = type }

\* the innermost hyperlink token around the token at path q
InnerLink(tokens, q) ==
    LET ds == DepthsOf(tokens, q, "link")
        d == CHOOSE m \in ds : \A n \in ds : n <= m
    IN  NodeAt(tokens, SubSeq(q, 1, d))

\* the options are those of the formatting tokens around path q, no more
IsInheritedStyle(options, tokens, q) ==
    /\ DOMAIN options \subseteq {"bold", "italic", "hyperlink"}
    /\ "bold" \in DOMAIN options <=> DepthsOf(tokens, q, "strong") # {}
    /\ "italic" \in DOMAIN options <=> DepthsOf(tokens, q, "em") # {}
    /\ "hyperlink" \in DOMAIN options <=> DepthsOf(tokens, q, "link") # {}
    /\ "bold" \in DOMAIN options => options.bold = TRUE
    /\ "italic" \in DOMAIN options => options.italic = TRUE
    /\ "hyperlink" \in DOMAIN options =>
          LET link == InnerLink(tokens, q) IN
          /\ options.hyperlink.url = link.href
          /\ options.hyperlink.tooltip =
                (IF link.title = << >> \/ link.title = <<"">>
                 THEN link.href ELSE link.title[1])

\* every token of another kind with raw text has its one run, with the raw
\* text and a style that satisfies styled; the tokens of another kind
\* without raw text have no run
OtherTokensYield(styled(_, _, _)) ==
    runsOut # << >> =>
        LET runs == runsOut[1] IN
        /\ Len(runs) = Cardinality(LeafPaths(tokensIn))
        /\ \A q \in OtherPaths(tokensIn) :
              LET token == NodeAt(tokensIn, q) IN
              IF token.raw = ""
              THEN q \notin LeafPaths(tokensIn)
              ELSE /\ q \in LeafPaths(tokensIn)
                   /\ RunOf(runs, tokensIn, q).text = token.raw
                   /\ styled(RunOf(runs, tokensIn, q).options, tokensIn, q)

IsUnstyled(options, tokens, q) == DOMAIN options = {}

\* C11 as stated: an inline token of another type than bold, italic, code
\* span, hyperlink or plain text with non-empty raw text yields exactly one
\* run, whose text is the raw text and whose style is empty, also when it is
\* nested inside bold, italic or hyperlink tokens; with empty raw text it
\* yields no run.
C11_OtherTokenUnstyled == OtherTokensYield(IsUnstyled)

\* C11 amended: an inline token of another type with non-empty raw text
\* yields exactly one run, whose text is the raw text and whose style is the
\* one inherited from the bold, italic and hyperlink tokens it is nested
\* inside, empty when it is nested inside none; with empty raw text it
\* yields no run.
C11_OtherTokenInheritsStyle == OtherTokensYield(IsInheritedStyle)

\* a token of another kind inside bold came out as a bold run of its raw
\* text, next to a token of another kind without raw text
C11_Witness ==
    /\ runsOut # << >>
    /\ \E i \in 1..Len(tokensIn) :
          /\ tokensIn[i].type = "strong"
          /\ tokensIn[i].tokens = << [type |-> "del", raw |-> "~d~"] >>
    /\ \E i \in 1..Len(tokensIn) : tokensIn[i] = [type |-> "html", raw |-> ""]
    /\ Len(runsOut[1]) = 1
    /\ runsOut[1][1].text = "~d~"
    /\ "bold" \in DOMAIN runsOut[1][1].options

(***************************************************************************)
(* Claims about the height of text blocks                                  *)
(***************************************************************************)
\* the number of runs of a text block flagged as line breaks
LineBreaks(runs) ==
    Cardinality({ i \in 1..Len(runs) :
                    /\ "breakLine" \in DOMAIN runs[i].options
                    /\ runs[i].options.breakLine = TRUE })

\* 0.5 x (1 + line breaks), capped at the space left
CappedHeight(runs, y) ==
    IF DLess(Double(500 * (1 + LineBreaks(runs))), SpaceLeft(y))
    THEN Double(500 * (1 + LineBreaks(runs)))
    ELSE SpaceLeft(y)

\* the calls that place a text block
TextCalls ==
    { i \in 1..Len(calls) :
        IsElementCall(calls[i]) /\ slide.elements[calls[i].idx].type = "textBlock" }

\* the height of every placed text block is min(space left, 0.5 x (1 + line
\* breaks)), is positive and does not exceed the space left, the space left
\* being the one the code computes
HeightIsCappedEstimate ==
    \A i \in TextCalls :
        LET c == calls[i] IN
        /\ c.fn = "addText"
        /\ c.opts.h = CappedHeight(slide.elements[c.idx].runs, c.opts.y)
        /\ DLess(Zero, c.opts.h)
        /\ DLeq(c.opts.h, SpaceLeft(c.opts.y))

\* after a text block the cursor is the old cursor plus (height plus 0.1),
\* the sums being those of the code
CursorAdvances ==
    (PassesElement /\ elems[k].type = "textBlock")
        => /\ Len(calls') = Len(calls) + 1
           /\ calls'[Len(calls')].opts.y = yOffset
           /\ yOffset' = DAdd(yOffset, DAdd(calls'[Len(calls')].opts.h, Inches0100))

\* the bottom edge y + h of every placed text block, the sum taken without
\* rounding, is at most 5.375 + slack(y); h is positive
BottomEdgeWithin(slack(_)) ==
    \A i \in TextCalls :
        LET y == calls[i].opts.y
            h == calls[i].opts.h
            limit == MagAdd(Inches5375.m, slack(y))
        IN  IF y.neg
            THEN MagLess(h.m, y.m) \/ ~MagLess(limit, MagSub(h.m, y.m))
            ELSE ~MagLess(limit, MagAdd(y.m, h.m))

NoSlack(y) == <<0, 0, 0>>

====
